---- MODULE Spec2Model ----
(***************************************************************************)
(* A model of the user-management dashboard of src/script.js: the state    *)
(* object, the filter / sort / paginate pipeline (applyAllFilters,         *)
(* renderTable) and the event handlers that drive it (load, sort, paging,  *)
(* search debounce, filter modal, add / edit form, delete).                *)
(*                                                                         *)
(* JavaScript strings are sequences of one-character strings, so that      *)
(* trim(), toLowerCase(), includes(), split() and the < of strings are     *)
(* computed and not assumed.                                               *)
(***************************************************************************)
EXTENDS Integers, Sequences, FiniteSets, Bags, TLC

VARIABLES users, filtered, page, perPage, totalPages, sortKey, sortDir,
          filters, search, searchInput, searchTimer, editingId, editModal,
          formError, errorBanner, loading, pending, issued, lastOp

vars == <<users, filtered, page, perPage, totalPages, sortKey, sortDir,
          filters, search, searchInput, searchTimer, editingId, editModal,
          formError, errorBanner, loading, pending, issued, lastOp>>

(***************************************************************************)
(* Bounds of the model.                                                    *)
(***************************************************************************)
\* records in the GET /users response: 0 .. MaxLoad
MaxLoad == 1
\* largest page size offered by the page-size select: 1 .. MaxPerPage
MaxPerPage == 1
\* mutation requests (POST, PUT, DELETE) issued in one run; all may be in flight at once
MaxRequests == 2
\* identifiers the remote service may assign to a created record:
\* MaxLoad + 1 .. MaxLoad + MaxServerId
MaxServerId == 1
\* length of the collections the pipeline is applied to in PipeSpec
MaxLen == 3

(***************************************************************************)
(* Strings.                                                                *)
(***************************************************************************)
Chars == {" ", ".", "@", "A", "B", "a", "b"}

\* the UTF-16 code unit of a character: JavaScript's < compares these
CharCode(c) ==
  CASE c = " " -> 32 [] c = "." -> 46 [] c = "@" -> 64
    [] c = "A" -> 65 [] c = "B" -> 66 [] c = "a" -> 97 [] c = "b" -> 98

LowerChar(c) == CASE c = "A" -> "a" [] c = "B" -> "b" [] OTHER -> c

toLowerCase(s) == [i \in 1..Len(s) |-> LowerChar(s[i])]

IsSpace(c) == c = " "

RECURSIVE trimStart(_)
trimStart(s) == IF s # <<>> /\ IsSpace(Head(s)) THEN trimStart(Tail(s)) ELSE s

RECURSIVE trimEnd(_)
trimEnd(s) ==
  IF s # <<>> /\ IsSpace(s[Len(s)]) THEN trimEnd(SubSeq(s, 1, Len(s) - 1)) ELSE s

trim(s) == trimEnd(trimStart(s))

\* String.prototype.includes
includes(s, t) ==
  \E i \in 0..(Len(s) - Len(t)) : SubSeq(s, i + 1, i + Len(t)) = t

\* a < b on strings: the first differing code unit decides, a proper prefix is less
RECURSIVE StrLess(_, _)
StrLess(a, b) ==
  IF b = <<>> THEN FALSE
  ELSE IF a = <<>> THEN TRUE
  ELSE IF Head(a) # Head(b) THEN CharCode(Head(a)) < CharCode(Head(b))
  ELSE StrLess(Tail(a), Tail(b))

\* [a, b, c, d].join(" ")
join4(a, b, c, d) == a \o <<" ">> \o b \o <<" ">> \o c \o <<" ">> \o d

(***************************************************************************)
(* Record Normalizer.                                                      *)
(***************************************************************************)
\* an absent (undefined) property, and a present one
None == <<>>
Some(v) == <<v>>

\* the index of the first character of s at or after i that is (is not) whitespace,
\* Len(s) + 1 when there is none
RECURSIVE nextSpace(_, _)
nextSpace(s, i) ==
  IF i > Len(s) \/ IsSpace(s[i]) THEN i ELSE nextSpace(s, i + 1)

RECURSIVE nextNonSpace(_, _)
nextNonSpace(s, i) ==
  IF i > Len(s) \/ ~IsSpace(s[i]) THEN i ELSE nextNonSpace(s, i + 1)

\* s.split(" "): every single space separates, so that a run of spaces gives
\* empty parts
RECURSIVE splitSpaces_Single(_)
splitSpaces_Single(s) ==
  LET i == nextSpace(s, 1)
  IN  IF i > Len(s) THEN <<s>>
      ELSE <<SubSeq(s, 1, i - 1)>> \o splitSpaces_Single(SubSeq(s, i + 1, Len(s)))

\* s.split(/\s+/)
RECURSIVE splitSpaces(_)
splitSpaces(s) ==
  LET i == nextSpace(s, 1)
  IN  IF i > Len(s) THEN <<s>>
      ELSE <<SubSeq(s, 1, i - 1)>>
             \o splitSpaces(SubSeq(s, nextNonSpace(s, i), Len(s)))

\* parts.join(" ")
RECURSIVE joinSpace(_)
joinSpace(parts) ==
  IF parts = <<>> THEN <<>>
  ELSE IF Len(parts) = 1 THEN parts[1]
  ELSE parts[1] \o <<" ">> \o joinSpace(Tail(parts))

splitName(full) ==
  IF full = None \/ full = Some(<<>>) THEN [first |-> <<>>, last |-> <<>>]
  ELSE LET parts == splitSpaces(trim(full[1]))
       IN  [first |-> parts[1], last |-> joinSpace(Tail(parts))]

makeUserFromAPI(u) ==
  LET n == splitName(u.name)
  IN  [id         |-> u.id,
       first      |-> n.first,
       last       |-> n.last,
       email      |-> IF u.email = None THEN <<>> ELSE u.email[1],
       department |-> IF u.company # None /\ u.company[1].name # None
                      THEN u.company[1].name[1] ELSE <<>>]

(***************************************************************************)
(* View Pipeline: applyAllFilters and renderTable.                         *)
(***************************************************************************)
\* state.sortKey before the first click on a column header
NullKey == "null"
SortKeys == {"id", "first", "last", "email", "department"}
\* the column headers clicked in the runs of the application
ClickKeys == {"department"}
NoFilters == [first |-> <<>>, last |-> <<>>, email |-> <<>>, department |-> <<>>]

\* the callback of state.users.filter; s is the trimmed, lower-cased search term
Passes(u, f, s) ==
  IF f.first # <<>> /\ ~includes(toLowerCase(u.first), toLowerCase(f.first))
    THEN FALSE
  ELSE IF f.last # <<>> /\ ~includes(toLowerCase(u.last), toLowerCase(f.last))
    THEN FALSE
  ELSE IF f.email # <<>> /\ ~includes(toLowerCase(u.email), toLowerCase(f.email))
    THEN FALSE
  ELSE IF f.department # <<>>
          /\ ~includes(toLowerCase(u.department), toLowerCase(f.department))
    THEN FALSE
  ELSE IF s # <<>>
          /\ ~includes(toLowerCase(join4(u.first, u.last, u.email, u.department)), s)
    THEN FALSE
  ELSE TRUE

\* FilterUsers without the toLowerCase() of the search term
FilterUsers_CaseSensitive(us, f, srch) ==
  LET s == trim(srch)
  IN  SelectSeq(us, LAMBDA u : Passes(u, f, s))

FilterUsers(us, f, srch) ==
  LET s == toLowerCase(trim(srch))
  IN  SelectSeq(us, LAMBDA u : Passes(u, f, s))

\* the comparator handed to Array.prototype.sort
Compare(a, b, key, dir) ==
  IF key = "id"
  THEN IF a.id < b.id THEN (-1) * dir
       ELSE IF a.id > b.id THEN 1 * dir
       ELSE 0
  ELSE LET va == toLowerCase(a[key])
           vb == toLowerCase(b[key])
       IN  IF StrLess(va, vb) THEN (-1) * dir
           ELSE IF StrLess(vb, va) THEN 1 * dir
           ELSE 0

\* Array.prototype.sort is stable (ECMAScript 2019): an element goes after every
\* element the comparator does not put after it
\* InsertSorted putting an element before the elements it ties with
RECURSIVE InsertSorted_Unstable(_, _, _, _)
InsertSorted_Unstable(sorted, x, key, dir) ==
  IF sorted = <<>> THEN <<x>>
  ELSE IF Compare(x, Head(sorted), key, dir) <= 0 THEN <<x>> \o sorted
  ELSE <<Head(sorted)>> \o InsertSorted_Unstable(Tail(sorted), x, key, dir)

RECURSIVE InsertSorted(_, _, _, _)
InsertSorted(sorted, x, key, dir) ==
  IF sorted = <<>> THEN <<x>>
  ELSE IF Compare(x, Head(sorted), key, dir) < 0 THEN <<x>> \o sorted
  ELSE <<Head(sorted)>> \o InsertSorted(Tail(sorted), x, key, dir)

RECURSIVE SortFrom(_, _, _, _)
SortFrom(done, rest, key, dir) ==
  IF rest = <<>> THEN done
  ELSE SortFrom(InsertSorted(done, Head(rest), key, dir), Tail(rest), key, dir)

SortUsers(seq, key, dir) == SortFrom(<<>>, seq, key, dir)

\* state.filtered as applyAllFilters leaves it
Pipeline(us, f, srch, key, dir) ==
  IF key # NullKey THEN SortUsers(FilterUsers(us, f, srch), key, dir)
  ELSE FilterUsers(us, f, srch)

Max2(a, b) == IF a > b THEN a ELSE b
Min2(a, b) == IF a < b THEN a ELSE b

\* Math.ceil(n / p) for n >= 0, p >= 1
Ceil(n, p) == (n + p - 1) \div p

TotalPagesOf(n, pp) == Max2(1, Ceil(n, pp))

\* ClampPage with the reset left out
ClampPage_Keep(p, tp) == p

\* ClampPage going to the last page instead of the first
ClampPage_ToLast(p, tp) == IF p > tp THEN tp ELSE p

\* ClampPage stepping back one page instead of going to the first
ClampPage_StepBack(p, tp) == IF p > tp THEN p - 1 ELSE p

ClampPage(p, tp) == IF p > tp THEN 1 ELSE p

\* applyAllFilters() without its sort step: the matching records in the order of
\* the collection
applyAllFilters_NoSort(us, f, srch, key, dir, p, pp) ==
  /\ filtered' = FilterUsers(us, f, srch)
  /\ totalPages' = TotalPagesOf(Len(filtered'), pp)
  /\ page' = ClampPage(p, totalPages')

\* applyAllFilters() run on the next state's collection, filters, search term, sort
\* spec, page p and page size pp
applyAllFilters(us, f, srch, key, dir, p, pp) ==
  /\ filtered' = Pipeline(us, f, srch, key, dir)
  /\ totalPages' = TotalPagesOf(Len(filtered'), pp)
  /\ page' = ClampPage(p, totalPages')

\* the rows renderTable puts in the table body
PageItems(flt, p, pp) ==
  LET start == (p - 1) * pp
  IN  SubSeq(flt, start + 1, Min2(Len(flt), start + pp))

(***************************************************************************)
(* Inputs: what the remote service returns and what the user types.        *)
(***************************************************************************)
RawNames == << Some(<<"a", " ", "B">>),
               Some(<<" ", "B", " ", " ", "a", " ", "b", " ">>),
               None,
               Some(<<"A">>) >>
RawEmails == << Some(<<"a", "@", "b", ".", "a">>), None, Some(<<"B", "@", "a", ".", "b">>) >>
RawCompanies == << Some([name |-> Some(<<"A">>)]), None, Some([name |-> None]),
                   Some([name |-> Some(<<"b", " ", "a">>)]) >>

Pick(vocab, i) == vocab[((i - 1) % Len(vocab)) + 1]

\* the i-th record of the remote collection
RawUser(i) ==
  [id |-> i, name |-> Pick(RawNames, i), email |-> Pick(RawEmails, i),
   company |-> Pick(RawCompanies, i)]

\* the body of a GET /users response with n records
RawData(n) == [i \in 1..n |-> RawUser(i)]

\* what the four fields of the edit form may hold when it is submitted
FormInputs ==
  { [first |-> <<" ", "A">>, last |-> <<>>,
     email |-> <<"b", "@", "a", ".", "b", " ">>, department |-> <<"b">>],
    [first |-> <<" ">>, last |-> <<"a">>,
     email |-> <<"a", "@", "b", ".", "a">>, department |-> <<>>],
    [first |-> <<"a">>, last |-> <<>>,
     email |-> <<"a", "@", "b">>, department |-> <<>>],
    [first |-> <<"a">>, last |-> <<>>,
     email |-> <<>>, department |-> <<"A">>] }

\* what the four fields of the filter modal may hold when Apply is clicked
FilterInputs ==
  { NoFilters,
    [NoFilters EXCEPT !.first = <<" ", "A", " ">>, !.email = <<"@">>] }

\* what the search box may hold
SearchInputs == { <<>>, <<" ", "B">> }

\* HTTP statuses of a response; a request may also fail with no response at all
Statuses == {200, 201, 204, 500}
Responses == [neterr : {FALSE}, status : Statuses] \cup {[neterr |-> TRUE, status |-> 0]}

\* res.ok with the status left unchecked
Ok_Always(r) == TRUE

\* res.ok taken to be status 200 alone
Ok_Only200(r) == r.status = 200

\* res.ok
Ok(r) == r.status >= 200 /\ r.status <= 299

\* the id property of the body of a POST response
RetIds == {None} \cup {Some(MaxLoad + i) : i \in 1..MaxServerId}

(***************************************************************************)
(* The edit form.                                                          *)
(***************************************************************************)
\* editingId is null (None) or an identifier (Some(id))
Truthy(e) == e # None /\ e[1] # 0
\* Number(editingId): Number(null) is 0
NumberOf(e) == IF e = None THEN 0 ELSE e[1]

NoSpaceAt(s, a, b) == \A k \in a..b : ~IsSpace(s[k]) /\ s[k] # "@"

\* validateEmail without the dot in the domain: /^[^\s@]+@[^\s@]+$/
validateEmail_NoDot(email) ==
  \E i \in 2..(Len(email) - 1) :
    /\ email[i] = "@"
    /\ NoSpaceAt(email, 1, i - 1)
    /\ NoSpaceAt(email, i + 1, Len(email))

\* /^[^\s@]+@[^\s@]+\.[^\s@]+$/.test(email)
validateEmail(email) ==
  \E i \in 2..Len(email) : \E j \in (i + 2)..(Len(email) - 1) :
    /\ email[i] = "@"
    /\ email[j] = "."
    /\ NoSpaceAt(email, 1, i - 1)
    /\ NoSpaceAt(email, i + 1, j - 1)
    /\ NoSpaceAt(email, j + 1, Len(email))

\* the four values the submit handler reads from the form
TrimForm(d) ==
  [first |-> trim(d.first), last |-> trim(d.last), email |-> trim(d.email),
   department |-> trim(d.department)]

\* localUser with the identifier id
WithId(d, id) ==
  [id |-> id, first |-> d.first, last |-> d.last, email |-> d.email,
   department |-> d.department]

closeEditModal ==
  /\ editModal' = FALSE
  /\ editingId' = None

openEditModal(e) ==
  /\ editingId' = e
  /\ formError' = FALSE
  /\ editModal' = TRUE

\* MaxId taken to be the number of records
MaxId_Len(us) == Len(us)

RECURSIVE MaxId(_)
\* Math.max(0, ...state.users.map((u) => u.id))
MaxId(us) == IF us = <<>> THEN 0 ELSE Max2(Head(us).id, MaxId(Tail(us)))

\* the identifiers of the rows on screen, which carry the Edit and Delete buttons
ShownIds == { u.id : u \in { PageItems(filtered, page, perPage)[i] :
                              i \in DOMAIN PageItems(filtered, page, perPage) } }

(***************************************************************************)
(* The application: the state after the script has run (init() has called  *)
(* loadUsers() and its fetch is in flight) and one action per handler.     *)
(***************************************************************************)
Init ==
  /\ users = <<>>
  /\ filtered = <<>>
  /\ page = 1
  /\ perPage = 10
  /\ totalPages = 1
  /\ sortKey = NullKey
  /\ sortDir = 1
  /\ filters = NoFilters
  /\ search = <<>>
  /\ searchInput = <<>>
  /\ searchTimer = 0
  /\ editingId = None
  /\ editModal = FALSE
  /\ formError = FALSE
  /\ errorBanner = FALSE
  /\ loading = TRUE
  /\ pending = EmptyBag
  /\ issued = 0
  /\ lastOp = "init"

viewVars == <<filtered, page, totalPages>>
queryVars == <<sortKey, sortDir, filters, search, perPage>>
searchVars == <<searchInput, searchTimer>>
formVars == <<editingId, editModal, formError>>
netVars == <<loading, pending, issued>>

\* the continuation of loadUsers() after its await
LoadResponse(n, r) ==
  /\ loading
  /\ loading' = FALSE
  /\ IF ~r.neterr /\ Ok(r)
     THEN /\ users' = [i \in 1..n |-> makeUserFromAPI(RawData(n)[i])]
          /\ applyAllFilters(users', filters, search, sortKey, sortDir, page, perPage)
          /\ lastOp' = "loadOk"
          /\ UNCHANGED errorBanner
     ELSE /\ errorBanner' = TRUE
          /\ lastOp' = "loadFail"
          /\ UNCHANGED <<users, viewVars>>
  /\ UNCHANGED <<queryVars, searchVars, formVars, pending, issued>>

\* click on a sortable column header
SortClick(key) ==
  /\ IF sortKey = key
     THEN sortDir' = -sortDir /\ sortKey' = sortKey
     ELSE sortKey' = key /\ sortDir' = 1
  /\ applyAllFilters(users, filters, search, sortKey', sortDir', page, perPage)
  /\ lastOp' = "ui"
  /\ UNCHANGED <<users, filters, search, perPage, searchVars, formVars, netVars,
                 errorBanner>>

PrevClick ==
  /\ page' = Max2(1, page - 1)
  /\ lastOp' = "ui"
  /\ UNCHANGED <<users, filtered, totalPages, queryVars, searchVars, formVars,
                 netVars, errorBanner>>

\* the next handler without its upper limit
NextClick_NoLimit ==
  /\ page' = page + 1
  /\ lastOp' = "ui"
  /\ UNCHANGED <<users, filtered, totalPages, queryVars, searchVars, formVars,
                 netVars, errorBanner>>

NextClick ==
  /\ page' = Min2(totalPages, page + 1)
  /\ lastOp' = "ui"
  /\ UNCHANGED <<users, filtered, totalPages, queryVars, searchVars, formVars,
                 netVars, errorBanner>>

\* change of the page-size select
PerPageChange(v) ==
  /\ perPage' = v
  /\ applyAllFilters(users, filters, search, sortKey, sortDir, 1, perPage')
  /\ lastOp' = "ui"
  /\ UNCHANGED <<users, sortKey, sortDir, filters, search, searchVars, formVars,
                 netVars, errorBanner>>

\* clearTimeout(searchTimer) without effect
clearTimeout_Missing(n) == n

\* clearTimeout(searchTimer) on n pending search timers: the handle names the timer
\* set last, which is cancelled if it has not fired
clearTimeout(n) == IF n > 0 THEN n - 1 ELSE 0

\* a keystroke in the search box: the pending timer is cleared, a new one is set;
\* searchTimer counts the search timers that are set and have not fired
SearchKey(v) ==
  /\ v # searchInput
  /\ searchInput' = v
  /\ searchTimer' = clearTimeout(searchTimer) + 1
  /\ lastOp' = "ui"
  /\ UNCHANGED <<users, viewVars, queryVars, formVars, netVars, errorBanner>>

\* the search timer fires: the callback reads the value the box holds now;
\* lastOp tells a firing right after a click on Clear filters from the others
SearchFire ==
  /\ searchTimer > 0
  /\ searchTimer' = searchTimer - 1
  /\ search' = searchInput
  /\ applyAllFilters(users, filters, search', sortKey, sortDir, 1, perPage)
  /\ lastOp' = IF lastOp = "clear" THEN "searchFireAfterClear" ELSE "searchFire"
  /\ UNCHANGED <<users, sortKey, sortDir, filters, perPage, searchInput, formVars,
                 netVars, errorBanner>>

\* click on Apply in the filter modal, whose fields hold f
ApplyFiltersClick(f) ==
  /\ filters' = [first |-> trim(f.first), last |-> trim(f.last),
                 email |-> trim(f.email), department |-> trim(f.department)]
  /\ applyAllFilters(users, filters', search, sortKey, sortDir, 1, perPage)
  /\ lastOp' = "ui"
  /\ UNCHANGED <<users, sortKey, sortDir, search, perPage, searchVars, formVars,
                 netVars, errorBanner>>

\* the clearFilters handler without elems.searchInput.value = ""
ClearFiltersClick_KeepBox ==
  /\ filters' = NoFilters
  /\ search' = <<>>
  /\ applyAllFilters(users, filters', search', sortKey, sortDir, 1, perPage)
  /\ lastOp' = "clear"
  /\ UNCHANGED <<users, sortKey, sortDir, perPage, searchVars, formVars, netVars,
                 errorBanner>>

\* click on Clear filters; a pending search timer is left running
ClearFiltersClick ==
  /\ filters' = NoFilters
  /\ search' = <<>>
  /\ searchInput' = <<>>
  /\ applyAllFilters(users, filters', search', sortKey, sortDir, 1, perPage)
  /\ lastOp' = "clear"
  /\ UNCHANGED <<users, sortKey, sortDir, perPage, searchTimer, formVars, netVars,
                 errorBanner>>

AddClick ==
  /\ openEditModal(None)
  /\ lastOp' = "ui"
  /\ UNCHANGED <<users, viewVars, queryVars, searchVars, netVars, errorBanner>>

\* click on the Edit button of a row on screen
EditClick(id) ==
  /\ id \in ShownIds
  /\ openEditModal(Some(id))
  /\ lastOp' = "ui"
  /\ UNCHANGED <<users, viewVars, queryVars, searchVars, netVars, errorBanner>>

\* click on Cancel, or on the backdrop of the edit modal
CancelEdit ==
  /\ editModal
  /\ closeEditModal
  /\ lastOp' = "ui"
  /\ UNCHANGED <<users, viewVars, queryVars, searchVars, netVars, errorBanner,
                 formError>>

\* the submit handler up to its await: validation, then the POST or PUT is sent
Submit(d) ==
  /\ editModal
  /\ LET f == TrimForm(d)
     IN  IF f.first = <<>> \/ f.email = <<>> \/ ~validateEmail(f.email)
         THEN /\ formError' = TRUE
              /\ lastOp' = "submitRejected"
              /\ UNCHANGED <<pending, issued>>
         ELSE /\ issued < MaxRequests
              /\ formError' = FALSE
              /\ issued' = issued + 1
              /\ pending' = pending (+) SetToBag({
                   [kind |-> IF Truthy(editingId) THEN "update" ELSE "create",
                    id |-> IF Truthy(editingId) THEN NumberOf(editingId) ELSE 0,
                    draft |-> f] })
              /\ lastOp' = "ui"
  /\ UNCHANGED <<users, viewVars, queryVars, searchVars, editingId, editModal,
                 loading, errorBanner>>

\* the continuation of the submit handler's create branch after its await
CreateResponse(req, r, ret) ==
  /\ req \in BagToSet(pending)
  /\ req.kind = "create"
  /\ pending' = pending (-) SetToBag({req})
  /\ IF ~r.neterr /\ Ok(r)
     THEN /\ LET newId == IF ret # None /\ ret[1] # 0 THEN ret[1] ELSE MaxId(users) + 1
             IN  users' = <<WithId(req.draft, newId)>> \o users
          /\ applyAllFilters(users', filters, search, sortKey, sortDir, page, perPage)
          /\ closeEditModal
          /\ lastOp' = "createOk"
          /\ UNCHANGED formError
     ELSE /\ formError' = TRUE
          /\ lastOp' = "createFail"
          /\ UNCHANGED <<users, viewVars, editingId, editModal>>
  /\ UNCHANGED <<queryVars, searchVars, loading, issued, errorBanner>>

\* ReplaceById adding the record when no record carries the identifier
ReplaceById_Upsert(us, id, rec) ==
  IF \E i \in DOMAIN us : us[i].id = id
  THEN [i \in DOMAIN us |-> IF us[i].id = id THEN rec ELSE us[i]]
  ELSE <<rec>> \o us

\* state.users.map((u) => (u.id === id ? rec : u))
ReplaceById(us, id, rec) == [i \in DOMAIN us |-> IF us[i].id = id THEN rec ELSE us[i]]

\* the continuation of the submit handler's update branch after its await: the
\* record to replace is found by the editingId of the moment the response arrives;
\* lastOp tells a continuation that runs right after a delete's from the others
UpdateResponse(req, r) ==
  /\ req \in BagToSet(pending)
  /\ req.kind = "update"
  /\ pending' = pending (-) SetToBag({req})
  /\ IF ~r.neterr /\ Ok(r)
     THEN /\ users' = ReplaceById(users, NumberOf(editingId), WithId(req.draft, req.id))
          /\ applyAllFilters(users', filters, search, sortKey, sortDir, page, perPage)
          /\ closeEditModal
          /\ lastOp' = IF lastOp = "deleteOk" THEN "updateOkAfterDelete" ELSE "updateOk"
          /\ UNCHANGED formError
     ELSE /\ formError' = TRUE
          /\ lastOp' = "updateFail"
          /\ UNCHANGED <<users, viewVars, editingId, editModal>>
  /\ UNCHANGED <<queryVars, searchVars, loading, issued, errorBanner>>

\* click on the Delete button of a row on screen, up to the await
DeleteClick(id, confirmed) ==
  /\ id \in ShownIds
  /\ IF confirmed
     THEN /\ issued < MaxRequests
          /\ issued' = issued + 1
          /\ pending' = pending (+) SetToBag({[kind |-> "delete", id |-> id,
                                               draft |-> NoFilters]})
          /\ lastOp' = "ui"
     ELSE /\ lastOp' = "ui"
          /\ UNCHANGED <<pending, issued>>
  /\ UNCHANGED <<users, viewVars, queryVars, searchVars, formVars, loading,
                 errorBanner>>

\* the continuation of the delete handler after its await
DeleteResponse(req, r) ==
  /\ req \in BagToSet(pending)
  /\ req.kind = "delete"
  /\ pending' = pending (-) SetToBag({req})
  /\ IF ~r.neterr /\ ~(~Ok(r) /\ r.status # 200 /\ r.status # 204)
     THEN /\ users' = SelectSeq(users, LAMBDA u : u.id # req.id)
          /\ applyAllFilters(users', filters, search, sortKey, sortDir, page, perPage)
          /\ lastOp' = "deleteOk"
          /\ UNCHANGED errorBanner
     ELSE /\ errorBanner' = TRUE
          /\ lastOp' = "deleteFail"
          /\ UNCHANGED <<users, viewVars>>
  /\ UNCHANGED <<queryVars, searchVars, formVars, loading, issued>>

\* the timer of showError hides the banner
BannerTimeout ==
  /\ errorBanner
  /\ errorBanner' = FALSE
  /\ lastOp' = "ui"
  /\ UNCHANGED <<users, viewVars, queryVars, searchVars, formVars, netVars>>

Requests == BagToSet(pending)

Next ==
  \/ \E n \in 0..MaxLoad, r \in Responses : LoadResponse(n, r)
  \/ \E key \in ClickKeys : SortClick(key)
  \/ PrevClick
  \/ NextClick
  \/ \E v \in 1..MaxPerPage : PerPageChange(v)
  \/ \E v \in SearchInputs : SearchKey(v)
  \/ SearchFire
  \/ \E f \in FilterInputs : ApplyFiltersClick(f)
  \/ ClearFiltersClick
  \/ AddClick
  \/ \E id \in ShownIds : EditClick(id)
  \/ CancelEdit
  \/ \E d \in FormInputs : Submit(d)
  \/ \E req \in Requests, r \in Responses, ret \in RetIds : CreateResponse(req, r, ret)
  \/ \E req \in Requests, r \in Responses : UpdateResponse(req, r)
  \/ \E id \in ShownIds, c \in BOOLEAN : DeleteClick(id, c)
  \/ \E req \in Requests, r \in Responses : DeleteResponse(req, r)
  \/ BannerTimeout

Spec == Init /\ [][Next]_vars

(***************************************************************************)
(* The pipeline on its own.  The initial state is the state of a handler   *)
(* that has assigned the collection, the filters, the search term, the     *)
(* sort spec or the page size and is about to call applyAllFilters (as     *)
(* between lines 355 and 356 of the delete handler): any collection of     *)
(* normalised remote records, any filter set, search term, sort spec and   *)
(* page size, and a page that may lie beyond the pages that are left.      *)
(* applyAllFilters overwrites filtered and totalPages without reading      *)
(* them.  Then applyAllFilters and the paging buttons run.                 *)
(***************************************************************************)
Range(f) == { f[i] : i \in DOMAIN f }

PipePool == { makeUserFromAPI(RawUser(i)) : i \in 1..(MaxLen + 1) }

\* the sequences of distinct records of the pool, up to MaxLen long
PipeCollections ==
  UNION { { q \in [1..n -> PipePool] : \A i, j \in 1..n : i # j => q[i] # q[j] } :
          n \in 0..MaxLen }

PipeFilters ==
  { NoFilters,
    [NoFilters EXCEPT !.first = <<"A">>],
    [NoFilters EXCEPT !.last = <<"B">>, !.department = <<"a">>],
    [NoFilters EXCEPT !.email = <<"@", "A">>] }

PipeSearches == { <<>>, <<"A">>, <<" ", "a">>, <<"b", " ", "a">> }

PipeInit ==
  /\ users \in PipeCollections
  /\ filters \in PipeFilters
  /\ search \in PipeSearches
  /\ sortKey \in SortKeys \cup {NullKey}
  /\ sortDir \in IF sortKey = NullKey THEN {1} ELSE {1, -1}
  /\ page \in 1..MaxLen
  /\ perPage \in 1..(MaxPerPage + 1)
  /\ filtered = <<>>
  /\ totalPages = 1
  /\ searchInput = search
  /\ searchTimer = 0
  /\ editingId = None
  /\ editModal = FALSE
  /\ formError = FALSE
  /\ errorBanner = FALSE
  /\ loading = FALSE
  /\ pending = EmptyBag
  /\ issued = 0
  /\ lastOp = "init"

\* a run of applyAllFilters on the state as it is; lastOp tells the first run from
\* the later ones, and whether the first run found the page beyond the last one
PipeApply ==
  /\ applyAllFilters(users, filters, search, sortKey, sortDir, page, perPage)
  /\ lastOp' = IF lastOp # "init" THEN "applyAgain"
               ELSE IF page > totalPages' THEN "applyReset" ELSE "apply"
  /\ UNCHANGED <<users, queryVars, searchVars, formVars, netVars, errorBanner>>

PipeNext ==
  \/ PipeApply
  \/ lastOp # "init" /\ PrevClick
  \/ lastOp # "init" /\ NextClick

PipeSpec == PipeInit /\ [][PipeNext]_vars

(***************************************************************************)
(* Properties of the page window.                                          *)
(***************************************************************************)
\* C1: in every state of the application, totalPages is
\* max(1, ceil(|filtered| / perPage)), that is the least t >= 1 with
\* t * perPage >= |filtered|, and 1 <= page <= totalPages.
C1_PageWindow ==
  /\ perPage >= 1
  /\ totalPages >= 1
  /\ totalPages * perPage >= Len(filtered)
  /\ totalPages > 1 => (totalPages - 1) * perPage < Len(filtered)
  /\ page >= 1
  /\ page <= totalPages

\* a create response has made a third page while the second was shown
C1_Witness == lastOp = "createOk" /\ totalPages >= 3 /\ page >= 2

\* a step of PipeSpec that ran applyAllFilters
AppliedStep == lastOp' \in {"apply", "applyReset", "applyAgain"}
Applied == lastOp \in {"apply", "applyReset", "applyAgain"}

\* C2 as claimed: a recompute that finds the page beyond the new last page moves it
\* to the last page, and leaves a page within range alone.
C2_ClampToLast ==
  [][AppliedStep => IF page > totalPages' THEN page' = totalPages' ELSE page' = page]_vars

\* C2: a recompute that finds the page beyond the new last page moves it to page 1,
\* and leaves a page within range alone.
C2_ResetToFirst ==
  [][AppliedStep => IF page > totalPages' THEN page' = 1 ELSE page' = page]_vars

\* a recompute found the page beyond the last of several pages
C2_Witness == lastOp = "applyReset" /\ totalPages >= 2 /\ page = 1

(***************************************************************************)
(* Properties of filtering and sorting.                                    *)
(***************************************************************************)
\* the records of the collection that satisfy P
Only(P(_)) == { u \in Range(users) : P(u) }

FieldPred(u, k) ==
  filters[k] = <<>> \/ includes(toLowerCase(u[k]), toLowerCase(filters[k]))
FirstPred(u) == FieldPred(u, "first")
LastPred(u) == FieldPred(u, "last")
EmailPred(u) == FieldPred(u, "email")
DepartmentPred(u) == FieldPred(u, "department")

Combined(u) == toLowerCase(join4(u.first, u.last, u.email, u.department))

\* the search term as typed
SearchPredAsTyped(u) == search = <<>> \/ includes(Combined(u), toLowerCase(search))
\* the search term without its leading and trailing whitespace
SearchPredTrimmed(u) ==
  trim(search) = <<>> \/ includes(Combined(u), toLowerCase(trim(search)))

NoRepeats(q) == Cardinality(Range(q)) = Len(q)

\* C3 as claimed: the filtered result holds exactly the records that satisfy the
\* four field predicates and contain the search term, as it is, in their four
\* fields joined by spaces.
C3_ExactlyMatchingAsTyped ==
  Applied =>
    /\ NoRepeats(filtered)
    /\ Range(filtered) = Only(FirstPred) \cap Only(LastPred) \cap Only(EmailPred)
                           \cap Only(DepartmentPred) \cap Only(SearchPredAsTyped)

\* C3: the filtered result holds exactly the records that satisfy the four field
\* predicates and contain the trimmed search term (when it is not empty) in their
\* four fields joined by spaces: the intersection of the five results.
C3_ExactlyMatching ==
  Applied =>
    /\ NoRepeats(filtered)
    /\ Range(filtered) = Only(FirstPred) \cap Only(LastPred) \cap Only(EmailPred)
                           \cap Only(DepartmentPred) \cap Only(SearchPredTrimmed)

\* a field filter and a search term with a leading space dropped some records and
\* kept one that holds the term only without that space
C3_Witness ==
  /\ Applied
  /\ filters # NoFilters
  /\ trim(search) # search
  /\ Len(filtered) < Len(users)
  /\ \E u \in Range(filtered) : ~SearchPredAsTyped(u)

\* the sort key of a record, and its order
KeyLess(a, b) ==
  IF sortKey = "id" THEN a.id < b.id
  ELSE StrLess(toLowerCase(a[sortKey]), toLowerCase(b[sortKey]))
KeyEqual(a, b) == ~KeyLess(a, b) /\ ~KeyLess(b, a)

\* the place of a record in the collection
Pos(u) == CHOOSE k \in DOMAIN users : users[k] = u

\* C4: with a sort key set, the filtered sequence is in key order (ascending for
\* sortDir 1, descending for -1) and records with equal keys keep the order they
\* have in the collection.
C4_SortedAndStable ==
  (Applied /\ sortKey # NullKey) =>
    \A i, j \in DOMAIN filtered :
      i < j =>
        /\ sortDir = 1 => ~KeyLess(filtered[j], filtered[i])
        /\ sortDir = -1 => ~KeyLess(filtered[i], filtered[j])
        /\ KeyEqual(filtered[i], filtered[j]) => Pos(filtered[i]) < Pos(filtered[j])

\* a descending sort of three records, two of which tie on a key that differs in case
C4_Witness ==
  /\ Applied
  /\ sortKey = "first"
  /\ sortDir = -1
  /\ Len(filtered) >= 3
  /\ \E i, j \in DOMAIN filtered :
       /\ i < j
       /\ KeyEqual(filtered[i], filtered[j])
       /\ filtered[i].first # filtered[j].first
  /\ \E i, j \in DOMAIN filtered : KeyLess(filtered[j], filtered[i])

\* C5: a run of applyAllFilters after the first, with the collection, search term,
\* filters, sort spec and page size as they were, changes neither the filtered
\* sequence, nor totalPages, nor the page, nor the rows shown.
C5_Idempotent ==
  [][lastOp' = "applyAgain" =>
       /\ filtered' = filtered
       /\ totalPages' = totalPages
       /\ page' = page
       /\ PageItems(filtered', page', perPage') = PageItems(filtered, page, perPage)]_vars

\* a second run on a sorted, filtered view of several pages
C5_Witness ==
  /\ lastOp = "applyAgain"
  /\ sortKey # NullKey
  /\ totalPages >= 2
  /\ Len(filtered) < Len(users)
  /\ PageItems(filtered, page, perPage) # <<>>

(***************************************************************************)
(* Properties of the Mutation Coordinator.                                 *)
(***************************************************************************)
\* a response with a status in the 2xx range, and any other outcome of a request
Success2xx(r) == ~r.neterr /\ r.status \in 200..299
Fails(r) == ~Success2xx(r)

\* the step leaves the view the pipeline's result for the collection it leaves
ViewRecomputed ==
  /\ filtered' = Pipeline(users', filters', search', sortKey', sortDir')
  /\ totalPages' = TotalPagesOf(Len(filtered'), perPage')
  /\ page' \in 1..totalPages'

\* local-part@domain with a dot inside the domain: no whitespace, exactly one "@",
\* not at the start, and a "." after it that neither follows it at once nor ends
\* the address
EmailShape(e) ==
  /\ \A i \in DOMAIN e : ~IsSpace(e[i])
  /\ Cardinality({ i \in DOMAIN e : e[i] = "@" }) = 1
  /\ e[1] # "@"
  /\ \E i \in DOMAIN e : \E j \in DOMAIN e :
       e[i] = "@" /\ e[j] = "." /\ j > i + 1 /\ j < Len(e)

InvalidDraft(d) ==
  \/ trim(d.first) = <<>>
  \/ trim(d.email) = <<>>
  \/ ~EmailShape(trim(d.email))

\* C6: a submission with an empty first name, an empty email or an email not of the
\* shape local-part@domain.tld sends no request, leaves the collection alone and
\* shows the form error.
C6_InvalidRejected ==
  [][\A d \in FormInputs :
       (InvalidDraft(d) /\ Submit(d)) =>
         /\ pending' = pending
         /\ issued' = issued
         /\ users' = users
         /\ formError']_vars

\* a submission has just been rejected, with the form still open
C6_Witness == lastOp = "submitRejected" /\ formError /\ editModal /\ users # <<>>

\* C7: sending a create, update or delete request leaves the collection as it is,
\* and so does a failure response to any of them, which shows the form error
\* (create, update) or the banner (delete).
C7_NoChangeBeforeConfirmation ==
  [][/\ \A d \in FormInputs : Submit(d) => users' = users
     /\ \A id \in ShownIds : \A c \in BOOLEAN : DeleteClick(id, c) => users' = users
     /\ \A req \in Requests : \A r \in Responses :
          Fails(r) =>
            /\ \A ret \in RetIds :
                 CreateResponse(req, r, ret) => (users' = users /\ formError')
            /\ UpdateResponse(req, r) => (users' = users /\ formError')
            /\ DeleteResponse(req, r) => (users' = users /\ errorBanner')]_vars

\* a delete has just failed: the banner is up and the record is still on screen
C7_Witness ==
  /\ lastOp = "deleteFail"
  /\ errorBanner
  /\ ShownIds # {}
  /\ Len(users) >= 2

\* the largest identifier of the collection, 0 for an empty one
MaxOfIds(us) ==
  CHOOSE m \in {0} \cup { u.id : u \in Range(us) } : \A u \in Range(us) : u.id <= m

C9_UpdateReplacesById ==
  [][\A req \in Requests : \A r \in Responses :
       (Success2xx(r) /\ UpdateResponse(req, r)) =>
         users' = [i \in DOMAIN users |->
                     IF users[i].id = req.id THEN WithId(req.draft, req.id)
                     ELSE users[i]]]_vars

\* the number of records before place i with the identifier id
Before(us, i, id) == Cardinality({ j \in 1..(i - 1) : us[j].id = id })

\* C10: a successful delete (any 2xx status) leaves no record with the identifier,
\* keeps every other record, in order, and recomputes the view.
C10_DeleteRemoves ==
  [][\A req \in Requests : \A r \in Responses :
       (Success2xx(r) /\ DeleteResponse(req, r)) =>
         /\ \A i \in DOMAIN users' : users'[i].id # req.id
         /\ Len(users') = Len(users) - Before(users, Len(users) + 1, req.id)
         /\ \A i \in DOMAIN users :
              users[i].id # req.id => users'[i - Before(users, i, req.id)] = users[i]
         /\ ViewRecomputed]_vars

\* a delete has just removed a record and left another
C10_Witness ==
  /\ lastOp = "deleteOk"
  /\ users # <<>>
  /\ filtered # <<>>

\* ---------------------------------------------------------------------------
\* C11: in every reachable state the identifiers of the records of the local
\* collection are pairwise distinct, whatever identifiers the service returns
\* to the creates and whatever updates and deletes have succeeded
C11_DistinctIds ==
  \A i, j \in DOMAIN users : i # j => users[i].id # users[j].id

\* the sequence us without its element at place k
RemoveAt(us, k) == SubSeq(us, 1, k - 1) \o SubSeq(us, k + 1, Len(us))

\* ---------------------------------------------------------------------------
\* C12: every successful remote mutation changes exactly one record, whatever
\* requests were pending together: a create adds exactly one record, an update
\* replaces exactly one record (the one with the request's identifier) by the
\* draft, a delete removes exactly one record (the one with the request's
\* identifier), and all other records are as they were
C12_ExactlyOneRecord ==
  [][\A req \in Requests : \A r \in Responses :
       Success2xx(r) =>
         /\ (\E ret \in RetIds : CreateResponse(req, r, ret)) =>
              \E k \in DOMAIN users' : RemoveAt(users', k) = users
         /\ UpdateResponse(req, r) =>
              \E k \in DOMAIN users :
                /\ users[k].id = req.id
                /\ users' = [users EXCEPT ![k] = WithId(req.draft, req.id)]
         /\ DeleteResponse(req, r) =>
              \E k \in DOMAIN users :
                /\ users[k].id = req.id
                /\ users' = RemoveAt(users, k)]_vars

C14_CreatedRecordStays ==
  [][ /\ (loading /\ ~loading' /\ lastOp' = "loadOk") => users = <<>>
      /\ \A i \in DOMAIN users :
           \/ \E j \in DOMAIN users' : users'[j].id = users[i].id
           \/ \E req \in Requests : \E r \in Responses :
                /\ req.kind = "delete"
                /\ req.id = users[i].id
                /\ Success2xx(r)
                /\ DeleteResponse(req, r) ]_vars

\* the create and update requests of the edit form that are pending, with their
\* numbers of copies
FormRequests == { req \in Requests : req.kind \in {"create", "update"} }
FormRequestsPending ==
  LET n[S \in SUBSET FormRequests] ==
        IF S = {} THEN 0
        ELSE LET q == CHOOSE x \in S : TRUE
             IN CopiesIn(q, pending) + n[S \ {q}]
  IN n[FormRequests]

\* ---------------------------------------------------------------------------
\* C15: at no time are two create or update requests of the edit form pending
\* together
C15_OneFormRequestPending == FormRequestsPending <= 1

(***************************************************************************)
(* The record normalizer on drawn raw records: the GET /users response in  *)
(* flight carries one raw record, and the load continuation normalizes it. *)
(***************************************************************************)
MaxNameLen == 5

NormChars == {" ", "a", "B"}

\* the strings over NormChars of at most n characters
NormStrings(n) == UNION { [1..k -> NormChars] : k \in 0..n }

NormNames == {None} \cup { Some(s) : s \in NormStrings(MaxNameLen) }
NormEmails == {None, Some(<<>>), Some(<<"a", "@", "B">>)}
NormCompanies ==
  {None, Some([name |-> None]), Some([name |-> Some(<<>>)]),
   Some([name |-> Some(<<"A", " ", "b">>)])}

NormRaw ==
  [id : 1..2, name : NormNames, email : NormEmails, company : NormCompanies]

\* the state after construction, with the body of the GET /users response that
\* is on its way
NormInit ==
  /\ Init!1 /\ Init!2 /\ Init!3 /\ Init!4 /\ Init!5 /\ Init!6 /\ Init!7
  /\ Init!8 /\ Init!9 /\ Init!10 /\ Init!11 /\ Init!12 /\ Init!13 /\ Init!14
  /\ Init!15 /\ Init!16
  /\ \E u \in NormRaw : pending = SetToBag({[kind |-> "load", body |-> <<u>>]})
  /\ issued = 0
  /\ lastOp = "init"

\* the continuation of loadUsers() after its await, on the body in flight
NormLoad ==
  \E req \in Requests :
    /\ req.kind = "load"
    /\ loading
    /\ loading' = FALSE
    /\ users' = [i \in DOMAIN req.body |-> makeUserFromAPI(req.body[i])]
    /\ applyAllFilters(users', filters, search, sortKey, sortDir, page, perPage)
    /\ pending' = pending (-) SetToBag({req})
    /\ lastOp' = "loadOk"
    /\ UNCHANGED <<queryVars, searchVars, formVars, issued, errorBanner>>

NormNext == NormLoad

NormSpec == NormInit /\ [][NormNext]_vars

\* the places of s where a whitespace-separated token starts, and where the token
\* that starts at place i ends
TokenStarts(s) ==
  { i \in DOMAIN s : ~IsSpace(s[i]) /\ (i = 1 \/ IsSpace(s[i - 1])) }
TokenEnd(s, i) ==
  CHOOSE j \in i..Len(s) :
    /\ \A k \in i..j : ~IsSpace(s[k])
    /\ j = Len(s) \/ IsSpace(s[j + 1])

\* the whitespace-separated tokens of s, in order
Tokens(s) ==
  LET starts == TokenStarts(s)
      nth(k) == CHOOSE i \in starts : Cardinality({ j \in starts : j < i }) = k - 1
  IN  [k \in 1..Cardinality(starts) |-> SubSeq(s, nth(k), TokenEnd(s, nth(k)))]

\* s is tokens joined by single spaces: no space at either end, no two in a row
SingleSpaced(s) ==
  /\ s # <<>> => ~IsSpace(s[1]) /\ ~IsSpace(s[Len(s)])
  /\ \A i \in 1..(Len(s) - 1) : ~(IsSpace(s[i]) /\ IsSpace(s[i + 1]))

\* the raw name of a record as a string, empty when the field is missing
NameOf(u) == IF u.name = None THEN <<>> ELSE u.name[1]

\* ---------------------------------------------------------------------------
\* C16: the normalizer gives every raw record a record with first = the first
\* whitespace-separated token of name, last = the remaining tokens joined by
\* single spaces (empty if there are none), email = the raw email or the empty
\* string, department = the nested company name or the empty string, and id =
\* the raw id; a missing or empty name gives empty first and last
C16_Normalized ==
  [][\A req \in Requests : req.kind = "load" =>
       LET u == req.body[1]
           toks == Tokens(NameOf(u))
       IN  /\ Len(users') = 1
           /\ DOMAIN users'[1] = {"id", "first", "last", "email", "department"}
           /\ users'[1].id = u.id
           /\ users'[1].first = IF toks = <<>> THEN <<>> ELSE toks[1]
           /\ SingleSpaced(users'[1].last)
           /\ Tokens(users'[1].last) = IF toks = <<>> THEN <<>> ELSE Tail(toks)
           /\ NameOf(u) = <<>> => users'[1].first = <<>> /\ users'[1].last = <<>>
           /\ users'[1].email = IF u.email = None THEN <<>> ELSE u.email[1]
           /\ users'[1].department =
                IF u.company = None \/ u.company[1].name = None THEN <<>>
                ELSE u.company[1].name[1]]_vars

\* a name of three tokens has been normalized, for a record without email and
\* company
C16_Witness ==
  /\ lastOp = "loadOk"
  /\ Len(users) = 1
  /\ users[1].first = <<"a">>
  /\ users[1].last = <<"B", " ", "a">>
  /\ users[1].email = <<>>
  /\ users[1].department = <<>>

\* ---------------------------------------------------------------------------
\* C17: the view is never stale: in every state a handler leaves, the filtered
\* sequence is the result of the filter-then-sort pipeline on the collection,
\* search term, field filters and sort spec of that state, so that the record a
\* successful update has changed is at once where the sort puts it
C17_ViewNeverStale ==
  filtered = Pipeline(users, filters, search, sortKey, sortDir)

\* an update has succeeded on a collection of two records shown sorted by
\* department, in an order that is not the collection's
C17_Witness ==
  /\ lastOp = "updateOk"
  /\ sortKey = "department"
  /\ Len(filtered) = 2
  /\ filtered # users

\* the step leaves at most one search timer pending, and a keystroke in the search
\* box leaves exactly one and neither the search term nor the view changed
SingleSlotTimer ==
  /\ searchTimer' <= 1
  /\ \A v \in SearchInputs :
       SearchKey(v) =>
         /\ searchTimer' = 1
         /\ searchInput' = v
         /\ search' = search
         /\ UNCHANGED <<filtered, page, totalPages>>

\* the step is the firing of a pending search timer
TimerFired == searchTimer > 0 /\ searchTimer' = searchTimer - 1

\* the timer that fires is the only one of its burst of keystrokes: it applies the
\* value the box holds, resets the page, recomputes the view and leaves no timer
OneRecomputePerBurst ==
  TimerFired =>
    /\ search' = searchInput
    /\ searchInput' = searchInput
    /\ searchTimer' = 0
    /\ page' = 1
    /\ filtered' = Pipeline(users', filters', search', sortKey', sortDir')

\* ---------------------------------------------------------------------------
\* C18 as claimed: the search debounce is a single-slot cancellable timer, a
\* burst of keystrokes gives one recompute with the latest value and page 1, and
\* the search term changes only when a timer fires
C18_TermChangesOnlyOnFire ==
  [][ /\ SingleSlotTimer
      /\ OneRecomputePerBurst
      /\ search' # search => TimerFired ]_vars

\* C18: the search debounce is a single-slot cancellable timer (at most one timer
\* pending, each keystroke cancels the unfired one and sets a new one), a burst
\* of keystrokes gives one recompute with the box's latest value and page 1, and
\* the search term changes only when a timer fires or when Clear filters empties
\* it together with the box and the four filters
C18_Debounce ==
  [][ /\ SingleSlotTimer
      /\ OneRecomputePerBurst
      /\ search' # search =>
           \/ TimerFired
           \/ /\ search' = <<>>
              /\ searchInput' = <<>>
              /\ filters' = NoFilters
              /\ page' = 1 ]_vars

\* the timer of the last keystroke has fired and applied a term that is not empty
C18_Witness ==
  /\ lastOp = "searchFire"
  /\ search # <<>>
  /\ search = searchInput
  /\ searchTimer = 0
  /\ page = 1

\* the step changes nothing of the collection, the view's sequence and page count,
\* the sort spec, the filters, the search term and the page size
PagingFrame ==
  /\ users' = users
  /\ filtered' = filtered
  /\ totalPages' = totalPages
  /\ sortKey' = sortKey
  /\ sortDir' = sortDir
  /\ filters' = filters
  /\ search' = search
  /\ perPage' = perPage

\* the rows shown after the step are the elements of the filtered sequence at the
\* places (page - 1) * perPage + 1 .. page * perPage that exist, in order
ShownIsPageSlice ==
  LET items == PageItems(filtered', page', perPage')
      first == (page' - 1) * perPage'
  IN  /\ Len(items) =
           Cardinality({ i \in DOMAIN filtered' : first < i /\ i <= page' * perPage' })
      /\ \A k \in DOMAIN items : items[k] = filtered'[first + k]

\* ---------------------------------------------------------------------------
\* C19: prev and next change only the page: prev sets it to max(1, page - 1),
\* next to min(totalPages, page + 1); collection, filtered sequence, page count,
\* sort spec, filters, search term and page size stay, and the rows shown are
\* exactly the elements of filtered at [(page - 1) * perPage, page * perPage)
C19_PagingOnlyMovesPage ==
  [][ /\ PrevClick =>
           /\ page' = IF page > 1 THEN page - 1 ELSE 1
           /\ PagingFrame
           /\ ShownIsPageSlice
      /\ NextClick =>
           /\ page' = IF page < totalPages THEN page + 1 ELSE totalPages
           /\ PagingFrame
           /\ ShownIsPageSlice ]_vars

\* paging has reached the second page of three records shown two a page, which
\* holds the one record left
C19_Witness ==
  /\ lastOp = "ui"
  /\ page = 2
  /\ perPage = 2
  /\ Len(filtered) = 3
  /\ PageItems(filtered, page, perPage) = <<filtered[3]>>

\* ---------------------------------------------------------------------------
\* C20: a click on Clear filters leaves the search term, the search box and the
\* four field filters empty, and they stay empty through every step that is
\* neither a keystroke in the search box nor a filter apply, the firing of a
\* search timer set before the click included
C20_ClearedStaysCleared ==
  [][ /\ ClearFiltersClick =>
           search' = <<>> /\ searchInput' = <<>> /\ filters' = NoFilters
      /\ ( /\ search = <<>> /\ searchInput = <<>> /\ filters = NoFilters
           /\ ~(\E v \in SearchInputs : SearchKey(v))
           /\ ~(\E f \in FilterInputs : ApplyFiltersClick(f)) ) =>
           search' = <<>> /\ searchInput' = <<>> /\ filters' = NoFilters ]_vars

\* a search timer that was pending at the click on Clear filters has fired right
\* after it, and the search term and the filters are empty
C20_Witness ==
  /\ lastOp = "searchFireAfterClear"
  /\ search = <<>>
  /\ filters = NoFilters
  /\ searchTimer = 0

====
